---- MODULE Spec2Model ----
(***************************************************************************)
(* The LASSO notebooks (Examples 3.1, 3.2 and Exercise 3.1): Step 2 splits *)
(* the table into a training and a holdout part and builds the stratified  *)
(* k-fold splitter, Step 3 sweeps the regularization grid with             *)
(* cross_validate and aggregates the per-fold results, Step 4 fits the     *)
(* final model and reports its non-zero coefficients.                      *)
(*                                                                         *)
(* Rows are row numbers of the table, feature columns are column numbers.  *)
(* Scores are integers in units of 1/ScoreScale, coefficients are integers *)
(* in units of the smallest magnitude the solver can return. What a pseudo *)
(* random generator or the solver returns is a choice from a set; with an  *)
(* integer random_state the choice is made once and every later call with  *)
(* the same seed repeats it.                                               *)
(***************************************************************************)
EXTENDS Integers, Sequences, FiniteSets, TLC

NSamples == 8        \* rows of the table
MaxRows == 4          \* rows of the file read into data8
MaxVal == 1           \* feature values of that file range over 0..MaxVal
MaxTests == 4         \* rows of the table of test results
MaxExp == 5           \* the least p-value above 0 is 1/2^MaxExp
MaxProteins == 5      \* rows of the table the contingency counts are taken from
MaxGenes == 3         \* gene identifiers are 1..MaxGenes
MaxMergeRows == 3     \* rows of each of the two tables that are merged
MaxData3 == 6         \* rows of the table that is balanced
n_samples == 2        \* rows drawn from each class (7500 in the notebook)
Nfolds == 2          \* n_splits of the splitter (the notebooks run 5)
NFeatures == 3       \* feature columns of the table
MaxCoef == 2         \* coefficients range over -MaxCoef..MaxCoef
ScoreScale == 2      \* scores range over 0/ScoreScale..ScoreScale/ScoreScale
MaxCand == 2         \* longest candidate grid
MaxLambda == 2       \* candidates are 1..MaxLambda
random_seed == 1

Rows == 1..NSamples
Classes == {0, 1}
Features == 1..NFeatures
Folds == 1..Nfolds
None == "None"
\* A name the notebook has not bound yet.
Unset == [bound |-> FALSE]
\* nan is kept apart from every score by lying outside 0..ScoreScale.
NaN == 0 - 1

----------------------------------------------------------------------------
(* What is wrong with the files the notebook loads, and whether an         *)
(* estimator's fit has been called yet                                     *)

\* none: nothing. missing_column: a column the set-up cell names is not in the
\* file. non_numeric: a feature column the set-up cell keeps holds a string.
\* missing_key: a row has no value in a column dropna is given.
Defects == {"none", "missing_column", "non_numeric", "missing_key"}

VARIABLES
    defect,          \* what is wrong with the loaded files
    fit_started      \* some estimator's fit has been called

\* Exercise 3.1, the cells before the split: the table and its scaling.
VARIABLES
    file8,           \* the rows of the file read into data8
    data8,           \* the table bound to data8
    described8,      \* what the last data8.describe() showed for a feature column
    cell8            \* the last of these cells that ran

scaleVars == <<file8, data8, described8, cell8>>

\* Examples 4.1 and 4.3, Section 4.2: the Benjamini-Hochberg cell.
VARIABLES
    data9,           \* the table of test results
    filter9,         \* TRUE in Example 4.1, which counts only odds ratios other than 1
    N_uncorr_acc,    \* results counted as significant, uncorrected p-values
    N_corr_acc,      \* results counted as significant, corrected p-values
    cell9            \* the last of these cells that ran

bhVars == <<data9, filter9, N_uncorr_acc, N_corr_acc, cell9>>

\* Section 1.1 (Application 1.1, Examples 1.2 and 1.3): the contingency table
\* and Fisher's exact test.
VARIABLES
    data1,             \* the table of proteins (or residues), filtered
    abcd,              \* the four counts a, b, c, d
    contingency_table, \* the rows of the DataFrame handed to fisher_exact
    odds_ratio,        \* the first value fisher_exact returns
    cell1              \* the last of these cells that ran

fisherVars == <<data1, abcd, contingency_table, odds_ratio, cell1>>

\* Example 2.1: the cell that loads the two tables and merges them.
VARIABLES
    csv4_p2,         \* the rows of the file read into data4_p2
    data4_p1,        \* misfolding and entanglement status, one row per protein
    data4_p2,        \* gene and uniprot_length
    data4_final,     \* the merged table
    cell4            \* the last of these cells that ran

mergeVars == <<csv4_p2, data4_p1, data4_p2, data4_final, cell4>>

\* The pre-processing notebook: the cell that balances the classes.
VARIABLES
    data3,                \* the table as loaded
    majority_downsampled, \* the rows drawn from the rows of outcome 0
    minority_downsampled, \* the rows drawn from the rows of outcome 1
    balanced,             \* the balanced table
    cell3                 \* how far the cell has got

balanceVars == <<data3, majority_downsampled, minority_downsampled, balanced, cell3>>
nbVars == <<scaleVars, bhVars, fisherVars, mergeVars, balanceVars>>

----------------------------------------------------------------------------
(* Arithmetic helpers                                                      *)

Abs(v) == IF v < 0 THEN -v ELSE v

RECURSIVE SumOver(_, _)
SumOver(f, S) ==
    IF S = {} THEN 0
    ELSE LET x == CHOOSE e \in S : TRUE IN f[x] + SumOver(f, S \ {x})

RECURSIVE SeqSum(_)
SeqSum(s) == IF s = <<>> THEN 0 ELSE Head(s) + SeqSum(Tail(s))

SeqToSet(s) == {s[i] : i \in 1..Len(s)}

Members(lab, S, c) == {r \in S : lab[r] = c}
Count(lab, S, c) == Cardinality(Members(lab, S, c))
ClassesIn(lab, S) == {lab[r] : r \in S}

----------------------------------------------------------------------------
(* train_test_split(X, y, test_size=0.2, random_state=random_seed,         *)
(* stratify=y)                                                             *)

test_size == <<1, 5>>

\* n_test = ceil(test_size * n_samples), n_train = n_samples - n_test
NTest(n) == (n * test_size[1] + test_size[2] - 1) \div test_size[2]
NTrain(n) == n - NTest(n)

\* _approximate_mode: the class counts of a draw of n_draws rows: the floor of
\* the expected count, the rows still missing going to the classes with the
\* largest remainders, ties between equal remainders settled by the generator.
ApproxModes(counts, n_draws) ==
    LET total == SumOver(counts, Classes)
        floored == [c \in Classes |-> (counts[c] * n_draws) \div total]
        remainder == [c \in Classes |-> (counts[c] * n_draws) % total]
        need_to_add == n_draws - SumOver(floored, Classes)
    IN { [c \in Classes |-> floored[c] + (IF c \in S THEN 1 ELSE 0)] :
           S \in { T \in SUBSET Classes :
                     /\ Cardinality(T) = need_to_add
                     /\ \A a \in T : \A b \in Classes \ T :
                            remainder[a] >= remainder[b] } }

ClassCounts(lab, S) == [c \in Classes |-> Count(lab, S, c)]

TrainCountsUnstratified(lab) ==
    { n_i \in [Classes -> 0..NSamples] :
        /\ SumOver(n_i, Classes) = NTrain(NSamples)
        /\ \A c \in Classes : n_i[c] <= Count(lab, Rows, c) }
\* n_i: the class counts of the training part.
TrainCounts(lab) == ApproxModes(ClassCounts(lab, Rows), NTrain(NSamples))

\* The training parts the generator can draw for n_i: per class, the first n_i
\* rows of a permutation of the rows of the class.
TrainDraws(lab, n_i) ==
    { T \in SUBSET Rows : \A c \in Classes : Count(lab, T, c) = n_i[c] }

\* The test part is cut from the same per-class permutations, right after the
\* training rows: t_i rows of what is left of each class.
HoldoutOf(lab, T) ==
    LET remaining == [c \in Classes |-> Count(lab, Rows, c) - Count(lab, T, c)]
    IN { H \in SUBSET (Rows \ T) :
           \E t_i \in ApproxModes(remaining, NTest(NSamples)) :
               \A c \in Classes : Count(lab, H, c) = t_i[c] }

----------------------------------------------------------------------------
(* kf = StratifiedKFold(n_splits=Nfolds, shuffle=True,                     *)
(* random_state=random_seed) and the folds kf.split(X_train, y_train)      *)
(* yields                                                                  *)

\* random_state as a sequence: <<seed>> for an integer seed, <<>> for None.
KfRandomStateNone == <<>>
KfRandomState == <<random_seed>>

NewKf == [n_splits |-> Nfolds, shuffle |-> TRUE, random_state |-> KfRandomState]

KfAfterSplitAdvanced(k) == [k EXCEPT !.random_state = <<k.random_state[1] + 1>>]
\* split() builds its generator from the integer random_state at every call and
\* leaves the splitter as it was.
KfAfterSplit(k) == k

\* split() raises ValueError when n_splits exceeds the member count of every
\* class (it only warns when it exceeds that of some class).
KfRaises(lab, T, k) ==
    \/ k > Cardinality(T)
    \/ \A c \in ClassesIn(lab, T) : k > Count(lab, T, c)

AllocationBlocks(lab, T, first, k) ==
    [c \in Classes |-> [i \in 1..k |-> IF i = 1 THEN Count(lab, T, c) ELSE 0]]
\* allocation[c][i]: the rows of class c in test fold i, by round robin over the
\* sorted encoded labels; classes are encoded by order of first appearance.
Allocation(lab, T, first, k) ==
    LET start == [c \in Classes |-> IF c = first THEN 0 ELSE Count(lab, T, first)]
    IN [c \in Classes |->
         [i \in 1..k |->
            Cardinality({p \in start[c]..(start[c] + Count(lab, T, c) - 1) :
                           p % k = i - 1})]]

\* The fold of every training row: per class, the block of fold numbers given by
\* the allocation, shuffled by the generator and laid over the rows of the class.
TestFolds(lab, T, first, k) ==
    LET allocation == Allocation(lab, T, first, k)
    IN { tf \in [T -> 1..k] :
           \A c \in Classes : \A i \in 1..k :
               Cardinality({r \in Members(lab, T, c) : tf[r] = i}) = allocation[c][i] }

RotationsLeaky(T, tf, k) ==
    [i \in 1..k |-> [test |-> {r \in T : tf[r] = i}, train |-> T]]
\* The k rotations of one split: rotation i validates on fold i, trains on the rest.
Rotations(T, tf, k) ==
    [i \in 1..k |-> [test |-> {r \in T : tf[r] = i}, train |-> {r \in T : tf[r] # i}]]

----------------------------------------------------------------------------
(* LogisticRegression(penalty="l1", solver="saga", max_iter=max_iter,      *)
(* C=1/lambda_val): what one fit and its scoring return                    *)

CoefVals == (0 - MaxCoef)..MaxCoef
ScoreVals == 0..ScoreScale

\* What the solver and the scorers can return for one fit: the model is built
\* without random_state, so saga shuffles the rows with the unseeded global
\* generator and the result is a choice from this set at every call.
FitDraws ==
    [coef_ : [Features -> CoefVals], converged : BOOLEAN,
     bal : ScoreVals, auc : ScoreVals]

\* Two of them: one coefficient of the smallest magnitude kept by a fit that
\* converged; every coefficient kept by a fit that ran into max_iter.
SomeFitDraws ==
    { [coef_ |-> [f \in Features |-> IF f = 1 THEN 1 ELSE 0], converged |-> TRUE,
       bal |-> ScoreScale, auc |-> ScoreScale \div 2],
      [coef_ |-> [f \in Features |-> IF f % 2 = 1 THEN MaxCoef ELSE 0 - MaxCoef],
       converged |-> FALSE, bal |-> 0, auc |-> ScoreScale] }

\* Every coefficient vector, with one pair of scores.
CoefDraws ==
    { [coef_ |-> c, converged |-> TRUE, bal |-> ScoreScale, auc |-> ScoreScale] :
        c \in [Features -> CoefVals] }

Unfitted == [fitted |-> FALSE, coef_ |-> <<>>, converged |-> FALSE]

FitRaisesOnOneClassOnly(lab, rot) == Cardinality(ClassesIn(lab, rot.train)) < 2
\* fit() validates what it is given before the solver runs: ValueError on a
\* feature value that is not a number, ValueError on labels of one class.
FitRaises(lab, rot) ==
    \/ defect = "non_numeric"
    \/ Cardinality(ClassesIn(lab, rot.train)) < 2

FitAndScoreAucAlways(lab, rot, draw) ==
    IF FitRaises(lab, rot)
    THEN [estimator |-> Unfitted, bal |-> NaN, auc |-> NaN]
    ELSE [estimator |-> [fitted |-> TRUE, coef_ |-> draw.coef_,
                         converged |-> draw.converged],
          bal |-> draw.bal,
          auc |-> draw.auc]
FitAndScoreConvergedOnly(lab, rot, draw) ==
    IF FitRaises(lab, rot) \/ ~draw.converged
    THEN [estimator |-> Unfitted, bal |-> NaN, auc |-> NaN]
    ELSE [estimator |-> [fitted |-> TRUE, coef_ |-> draw.coef_,
                         converged |-> draw.converged],
          bal |-> draw.bal,
          auc |-> IF Cardinality(ClassesIn(lab, rot.test)) < 2 THEN NaN ELSE draw.auc]
\* _fit_and_score with error_score=nan on one rotation: when fit() raises
\* the fit is recorded as failed (both scores
\* nan, the estimator left unfitted); the roc_auc scorer raises on a validation
\* portion of one class and that score alone becomes nan.
FitAndScore(lab, rot, draw) ==
    IF FitRaises(lab, rot)
    THEN [estimator |-> Unfitted, bal |-> NaN, auc |-> NaN]
    ELSE [estimator |-> [fitted |-> TRUE, coef_ |-> draw.coef_,
                         converged |-> draw.converged],
          bal |-> draw.bal,
          auc |-> IF Cardinality(ClassesIn(lab, rot.test)) < 2 THEN NaN ELSE draw.auc]

\* n_jobs=-1: the k fits are handed to the worker pool in fold order and end in
\* any order; done[j] is the fold whose fit ends j-th.
FoldOrder(k) == [i \in 1..k |-> i]
CompletionOrders(k) ==
    { done \in [1..k -> 1..k] : \A i, j \in 1..k : i # j => done[i] # done[j] }

JoinAsCompleted(done, finished) == finished
\* Parallel returns the results in the order the tasks were handed out, whatever
\* the order they ended in.
JoinInSubmissionOrder(done, finished) ==
    [i \in DOMAIN done |-> finished[CHOOSE j \in DOMAIN done : done[j] = i]]

\* cross_validate(..., return_estimator=True, scoring=[balanced_accuracy,
\* roc_auc]): the per-rotation results joined in fold order. splits is not a key
\* of the library's dictionary: it records the rows each rotation used.
\* by_fold and in_order are no keys of the library's dictionary either: by_fold
\* is what the fit of each rotation returned, in_order whether the fits ended in
\* the order they were handed out.
CvResults(lab, rots, draws, done) ==
    LET by_fold == [i \in DOMAIN rots |-> FitAndScore(lab, rots[i], draws[i])]
        finished == [j \in DOMAIN done |-> by_fold[done[j]]]
        res == JoinInSubmissionOrder(done, finished)
    IN [test_balanced_accuracy |-> [i \in DOMAIN rots |-> res[i].bal],
        test_roc_auc |-> [i \in DOMAIN rots |-> res[i].auc],
        estimator |-> [i \in DOMAIN rots |-> res[i].estimator],
        splits |-> rots,
        by_fold |-> by_fold,
        in_order |-> (done = FoldOrder(Len(done)))]

\* The convergence warnings a cv_results carries, by fold. cross_validate returns
\* fit_time, score_time, estimator and the test scores; the ConvergenceWarning of
\* a fit goes to the warning machinery of the process that ran the fit, and the
\* sweep cell records none.
ConvergenceWarnings(cv) == {}

AllFitsFailedIgnored(cv) == FALSE
\* _warn_or_raise_about_fit_failures: ValueError when every fit failed.
AllFitsFailed(cv) == \A i \in DOMAIN cv.estimator : ~cv.estimator[i].fitted

----------------------------------------------------------------------------
(* The aggregation cell: np.mean, np.std(ddof=1), np.count_nonzero          *)

RECURSIVE Sorted(_)
Sorted(S) ==
    IF S = {} THEN <<>>
    ELSE LET m == CHOOSE x \in S : \A z \in S : x <= z
         IN <<m>> \o Sorted(S \ {m})

\* A mean is the fraction num/den, in the unit of the values.
NaNStat == [nan |-> TRUE, num |-> 0, den |-> 1]

MeanUndivided(xs) ==
    IF NaN \in SeqToSet(xs) THEN NaNStat
    ELSE [nan |-> FALSE, num |-> SeqSum(xs), den |-> 1]
Mean(xs) ==
    IF NaN \in SeqToSet(xs) THEN NaNStat
    ELSE [nan |-> FALSE, num |-> SeqSum(xs), den |-> Len(xs)]

StdPopulation(xs) ==
    IF NaN \in SeqToSet(xs) \/ Len(xs) < 2 THEN NaNStat
    ELSE [nan |-> FALSE,
          num |-> Len(xs) * SeqSum([i \in DOMAIN xs |-> xs[i] * xs[i]])
                       - SeqSum(xs) * SeqSum(xs),
          den |-> Len(xs) * Len(xs)]
\* A sample standard deviation (divisor n-1) is kept as its square, the fraction
\* num/den = (n * sum of squares - square of the sum) / (n * (n-1)).
Std(xs) ==
    IF NaN \in SeqToSet(xs) \/ Len(xs) < 2 THEN NaNStat
    ELSE [nan |-> FALSE,
          num |-> Len(xs) * SeqSum([i \in DOMAIN xs |-> xs[i] * xs[i]])
                       - SeqSum(xs) * SeqSum(xs),
          den |-> Len(xs) * (Len(xs) - 1)]

CountNonzeroTol(coef) == Cardinality({f \in DOMAIN coef : Abs(coef[f]) > 1})
CountNonzero(coef) == Cardinality({f \in DOMAIN coef : coef[f] # 0})

SortedKeysDesc(rd) ==
    LET asc == Sorted(DOMAIN rd)
    IN [i \in DOMAIN asc |-> asc[Len(asc) + 1 - i]]
SortedKeys(rd) == Sorted(DOMAIN rd)

\* estimator.coef_ raises AttributeError on an estimator whose fit failed.
CoefReadable(cv) == \A i \in DOMAIN cv.estimator : cv.estimator[i].fitted

NonzeroCountsOfZeros(cv) ==
    [i \in DOMAIN cv.estimator |->
       Cardinality({f \in Features : cv.estimator[i].coef_[f] = 0})]
NonzeroCounts(cv) ==
    [i \in DOMAIN cv.estimator |-> CountNonzero(cv.estimator[i].coef_)]

\* The candidates the loop gets through before coef_ raises.
DonePrefix(keys, rd) ==
    LET good == {n \in 0..Len(keys) : \A j \in 1..n : CoefReadable(rd[keys[j]])}
    IN CHOOSE n \in good : \A m \in good : m <= n

----------------------------------------------------------------------------
(* The final-model cell: mask, argsort, reversal                           *)

\* coef != 0 as the columns the boolean mask selects, in column order.
NonzeroIndices(coef) == Sorted({f \in DOMAIN coef : coef[f] # 0})

Take(v, idx) == [i \in DOMAIN idx |-> v[idx[i]]]

NonzeroFeaturesUnmasked(coef) == Sorted(DOMAIN coef)
\* X_train.columns[nonzero_indices]: the names under the mask the coefficients
\* were taken with; a column is named by its position in the feature matrix.
NonzeroFeatures(coef) == NonzeroIndices(coef)

ArgSortsUnordered(v) ==
    { p \in [DOMAIN v -> DOMAIN v] : \A i, j \in DOMAIN v : i # j => p[i] # p[j] }
\* ndarray.argsort(): some permutation that puts the values in ascending order;
\* the default sort is not stable, equal values come in any order.
ArgSorts(v) ==
    { p \in [DOMAIN v -> DOMAIN v] :
        /\ \A i, j \in DOMAIN v : i # j => p[i] # p[j]
        /\ \A i \in DOMAIN v : i < Len(v) => v[p[i]] <= v[p[i + 1]] }

Reversed(s) == [i \in DOMAIN s |-> s[Len(s) + 1 - i]]

SortedIndicesAsc(order) == order
SortedIndices(order) == Reversed(order)

----------------------------------------------------------------------------
(* The notebook's state                                                    *)

VARIABLES
    y,               \* the outcome column of the table, by row
    grid,            \* the candidate grid Step 2 is given
    pc,              \* where the run stands
    raised,          \* the exception that ended the run, or None
    X_train,         \* the rows of the training part
    X_holdout,       \* the rows of the holdout part
    first_label,     \* the label of the first row of the shuffled training part
    kf,              \* the splitter object
    rs_folds,        \* {the folds RandomState(random_seed) shuffles out}, once drawn
    lambda_vals,     \* the candidates the sweep loops over
    lambda_i,        \* the position of the sweep loop in lambda_vals
    results_dict,    \* candidate -> cv_results
    bal_acc_means, bal_acc_stds,
    auroc_means, auroc_stds,
    nonzero_means, nonzero_stds,
    final_model,     \* the fitted final model, with the rows it was fitted on
    holdout,         \* the holdout scores, with the rows they were computed on
    sorted_features, \* the reported feature names (column numbers)
    sorted_coefs     \* the reported coefficients

splitVars == <<X_train, X_holdout, first_label, kf>>
aggVars == <<bal_acc_means, bal_acc_stds, auroc_means, auroc_stds,
             nonzero_means, nonzero_stds>>
finalVars == <<final_model, holdout, sorted_features, sorted_coefs>>
lassoVars == <<defect, fit_started, y, grid, pc, raised, splitVars, rs_folds, lambda_vals,
               lambda_i, results_dict, aggVars, finalVars>>
vars == <<lassoVars, nbVars>>
\* What the cells of one notebook leave alone of the others.
exceptScale == <<lassoVars, bhVars, fisherVars, mergeVars, balanceVars>>
exceptBh == <<lassoVars, scaleVars, fisherVars, mergeVars, balanceVars>>
exceptFisher == <<lassoVars, scaleVars, bhVars, mergeVars, balanceVars>>
exceptMerge == <<lassoVars, scaleVars, bhVars, fisherVars, balanceVars>>
exceptBalance == <<lassoVars, scaleVars, bhVars, fisherVars, mergeVars>>

\* Tables with at least two rows of each class (train_test_split refuses less).
Labelings == { lab \in [Rows -> Classes] : \A c \in Classes : Count(lab, Rows, c) >= 2 }
\* The same tables with the rows of class 1 first.
BlockLabelings == { lab \in Labelings : \A r \in Rows : r > 1 => lab[r] <= lab[r - 1] }

Lambdas == 1..MaxLambda
Grids == UNION { [1..n -> Lambdas] : n \in 1..MaxCand }
\* The grid of the notebooks is ascending: np.logspace(-1, 4, 6).
LogspaceGrid == [i \in 1..MaxCand |-> i]

\* The cells before the split have run and are left as they are.
ScaleNotRun ==
    /\ file8 = <<>> /\ data8 = <<>> /\ described8 = Unset /\ cell8 = "done"

BhNotRun ==
    /\ data9 = <<>> /\ filter9 = FALSE /\ N_uncorr_acc = 0 /\ N_corr_acc = 0
    /\ cell9 = "done"

FisherNotRun ==
    /\ data1 = <<>> /\ abcd = Unset /\ contingency_table = Unset /\ odds_ratio = Unset
    /\ cell1 = "done"

MergeNotRun ==
    /\ csv4_p2 = <<>> /\ data4_p1 = <<>> /\ data4_p2 = <<>> /\ data4_final = <<>>
    /\ cell4 = "done"

BalanceNotRun ==
    /\ data3 = <<>> /\ majority_downsampled = <<>> /\ minority_downsampled = <<>>
    /\ balanced = <<>> /\ cell3 = "done"

\* The cells of every notebook but one are left as they are.
NotRunBut(notebook) ==
    /\ IF notebook # "scale" THEN ScaleNotRun ELSE TRUE
    /\ IF notebook # "bh" THEN BhNotRun ELSE TRUE
    /\ IF notebook # "fisher" THEN FisherNotRun ELSE TRUE
    /\ IF notebook # "merge" THEN MergeNotRun ELSE TRUE
    /\ IF notebook # "balance" THEN BalanceNotRun ELSE TRUE

LassoNotRun(Tables, GridChoices, DefectChoices) ==
    /\ defect \in DefectChoices
    /\ fit_started = FALSE
    /\ y \in Tables
    /\ grid \in GridChoices
    /\ pc = "start"
    /\ raised = None
    /\ X_train = {} /\ X_holdout = {} /\ first_label = 0 /\ kf = Unset
    /\ rs_folds = {}
    /\ lambda_vals = <<>> /\ lambda_i = 0
    /\ results_dict = <<>>
    /\ bal_acc_means = <<>> /\ bal_acc_stds = <<>>
    /\ auroc_means = <<>> /\ auroc_stds = <<>>
    /\ nonzero_means = <<>> /\ nonzero_stds = <<>>
    /\ final_model = Unset /\ holdout = Unset
    /\ sorted_features = <<>> /\ sorted_coefs = <<>>

Init(Tables, GridChoices, DefectChoices) ==
    /\ LassoNotRun(Tables, GridChoices, DefectChoices)
    /\ NotRunBut("lasso")

\* The LASSO cells have not run and are left as they are.
LassoIdle == LassoNotRun({CHOOSE lab \in BlockLabelings : TRUE}, {LogspaceGrid}, {"none"})

\* One of the values a generator or the solver can return, when a run follows a
\* single stream instead of all of them.
Pinned(pin, S) == IF pin THEN {CHOOSE x \in S : TRUE} ELSE S

----------------------------------------------------------------------------
(* Step 2: the split, the splitter, the grid                               *)

\* data7_features.drop([...], axis=1) and data7_outcomes["Speed"] raise KeyError
\* on a label that is not a column.
PrepareDataRaises ==
    /\ pc = "start"
    /\ defect = "missing_column"
    /\ pc' = "raised"
    /\ raised' = "KeyError"
    /\ UNCHANGED <<nbVars, defect, fit_started, y, grid, splitVars, rs_folds, lambda_vals,
                   lambda_i, results_dict, aggVars, finalVars>>

\* Nothing in the cell looks at the values: a string in a kept feature column
\* goes through the split, and the rows dropna removed are not in the table.
PrepareData(pin) ==
    /\ pc = "start"
    /\ defect # "missing_column"
    /\ \E n_i \in TrainCounts(y) :
         \E T \in Pinned(pin, TrainDraws(y, n_i)) :
           \E H \in HoldoutOf(y, T) :
             \E c \in Pinned(pin, ClassesIn(y, T)) :
               /\ X_train' = T
               /\ X_holdout' = H
               /\ first_label' = c
    /\ kf' = NewKf
    /\ lambda_vals' = grid
    /\ pc' = "ready"
    /\ UNCHANGED <<nbVars, defect, fit_started, y, grid, raised, rs_folds, lambda_i,
                   results_dict, aggVars, finalVars>>

----------------------------------------------------------------------------
(* Step 3: the sweep loop                                                  *)

KeptResultsDict == results_dict
\* results_dict = {}
NewResultsDict == <<>>

SweepBegin(again) ==
    /\ \/ pc = "ready"
       \/ again /\ pc \in {"swept", "aggregated", "reported"}
    /\ results_dict' = NewResultsDict
    /\ lambda_i' = 1
    /\ pc' = "sweeping"
    /\ UNCHANGED <<nbVars, defect, fit_started, y, grid, raised, splitVars, rs_folds,
                   lambda_vals, aggVars, finalVars>>

Put(rd, key, val) == [l \in DOMAIN rd \cup {key} |-> IF l = key THEN val ELSE rd[l]]

\* One iteration: kf.split, the k fits, results_dict[lambda_val] = cv_results.
\* With pool the fits end in any order, without it in the order of the folds.
\* An exception of kf.split or of cross_validate ends the cell where it stands.
SweepIter(pin, Draws, pool) ==
    /\ pc = "sweeping"
    /\ IF KfRaises(y, X_train, kf.n_splits)
       THEN /\ pc' = "raised"
            /\ raised' = "ValueError"
            /\ UNCHANGED <<fit_started, kf, rs_folds, results_dict, lambda_i>>
       ELSE \E tf \in (IF kf.random_state # <<>> /\ rs_folds # {}
                       THEN rs_folds
                       ELSE Pinned(pin, TestFolds(y, X_train, first_label, kf.n_splits))) :
              \E draws \in [1..kf.n_splits -> Draws] :
              \E done \in (IF pool THEN CompletionOrders(kf.n_splits)
                            ELSE {FoldOrder(kf.n_splits)}) :
                LET cv == CvResults(y, Rotations(X_train, tf, kf.n_splits), draws, done)
                IN /\ rs_folds' = IF kf.random_state # <<>> THEN {tf} ELSE rs_folds
                   /\ kf' = KfAfterSplit(kf)
                   /\ fit_started' = TRUE
                   /\ IF AllFitsFailed(cv)
                      THEN /\ pc' = "raised"
                           /\ raised' = "ValueError"
                           /\ UNCHANGED <<results_dict, lambda_i>>
                      ELSE /\ results_dict' = Put(results_dict, lambda_vals[lambda_i], cv)
                           /\ lambda_i' = lambda_i + 1
                           /\ pc' = IF lambda_i = Len(lambda_vals)
                                    THEN "swept" ELSE "sweeping"
                           /\ UNCHANGED raised
    /\ UNCHANGED <<nbVars, defect, y, grid, X_train, X_holdout, first_label, lambda_vals,
                   aggVars, finalVars>>

----------------------------------------------------------------------------
(* The aggregation cell                                                    *)

LoopKeysBackwards(keys) == [j \in DOMAIN keys |-> keys[Len(keys) + 1 - j]]
\* for lambda_val in lambda_vals: the loop goes over the sorted list itself.
LoopKeys(keys) == keys

Aggregate ==
    /\ pc = "swept"
    /\ LET keys == SortedKeys(results_dict)
           n == DonePrefix(LoopKeys(keys), results_dict)
           cvs == [j \in 1..n |-> results_dict[LoopKeys(keys)[j]]]
       IN /\ lambda_vals' = keys
          /\ bal_acc_means' = [j \in 1..n |-> Mean(cvs[j].test_balanced_accuracy)]
          /\ bal_acc_stds' = [j \in 1..n |-> Std(cvs[j].test_balanced_accuracy)]
          /\ auroc_means' = [j \in 1..n |-> Mean(cvs[j].test_roc_auc)]
          /\ auroc_stds' = [j \in 1..n |-> Std(cvs[j].test_roc_auc)]
          /\ nonzero_means' = [j \in 1..n |-> Mean(NonzeroCounts(cvs[j]))]
          /\ nonzero_stds' = [j \in 1..n |-> Std(NonzeroCounts(cvs[j]))]
          /\ IF n < Len(keys)
             THEN pc' = "raised" /\ raised' = "AttributeError"
             ELSE pc' = "aggregated" /\ UNCHANGED raised
    /\ UNCHANGED <<nbVars, defect, fit_started, y, grid, splitVars, rs_folds, lambda_i,
                   results_dict, finalVars>>

\* The rows of the summary the cell prints after the loop.
SummaryRows ==
    [i \in DOMAIN bal_acc_means |->
       [lambda_val |-> lambda_vals[i],
        bal_acc |-> <<bal_acc_means[i], bal_acc_stds[i]>>,
        auroc |-> <<auroc_means[i], auroc_stds[i]>>,
        nonzero |-> <<nonzero_means[i], nonzero_stds[i]>>]]

----------------------------------------------------------------------------
(* Step 4: the final model and its report                                  *)

FinalFitRowsAll == X_train \cup X_holdout
FinalFitRowsFold ==
    LET l == CHOOSE l \in DOMAIN results_dict : TRUE
    IN results_dict[l].splits[1].train
FinalFitRows == X_train

HoldoutRows == X_holdout

FinalModel(Draws) ==
    /\ pc \in {"swept", "aggregated"}
    /\ \E d \in Draws :
         /\ final_model' = [coef_ |-> d.coef_, converged |-> d.converged,
                            fit_rows |-> FinalFitRows]
         /\ \/ /\ Cardinality(ClassesIn(y, HoldoutRows)) = 2
               /\ holdout' = [auroc |-> d.auc, bal_acc |-> d.bal, rows |-> HoldoutRows]
            \/ /\ Cardinality(ClassesIn(y, HoldoutRows)) < 2
               /\ holdout' = [auroc |-> NaN, bal_acc |-> d.bal, rows |-> HoldoutRows]
         /\ LET coef == d.coef_
                nonzero_indices == NonzeroIndices(coef)
                nonzero_coefs == Take(coef, nonzero_indices)
                nonzero_features == NonzeroFeatures(coef)
            IN \E order \in ArgSorts([i \in DOMAIN nonzero_coefs |-> Abs(nonzero_coefs[i])]) :
                 LET sorted_indices == SortedIndices(order)
                 IN /\ sorted_features' = Take(nonzero_features, sorted_indices)
                    /\ sorted_coefs' = Take(nonzero_coefs, sorted_indices)
    /\ fit_started' = TRUE
    /\ pc' = "reported"
    /\ UNCHANGED <<nbVars, defect, y, grid, raised, splitVars, rs_folds, lambda_vals, lambda_i,
                   results_dict, aggVars>>

\* roc_auc_score on a holdout part of one class: the releases that raise
\* ValueError end the cell after the fit and before the report.
FinalModelRaises(Draws) ==
    /\ pc \in {"swept", "aggregated"}
    /\ Cardinality(ClassesIn(y, HoldoutRows)) < 2
    /\ \E d \in Draws :
         final_model' = [coef_ |-> d.coef_, converged |-> d.converged,
                         fit_rows |-> FinalFitRows]
    /\ fit_started' = TRUE
    /\ pc' = "raised"
    /\ raised' = "ValueError"
    /\ UNCHANGED <<nbVars, defect, y, grid, splitVars, rs_folds, lambda_vals, lambda_i, results_dict,
                   aggVars, holdout, sorted_features, sorted_coefs>>

----------------------------------------------------------------------------
(* Specifications                                                          *)

OneDraw == {CHOOSE d \in SomeFitDraws : d.converged}

\* Every split and shuffle; the solver follows one stream.
InitSplit == Init(BlockLabelings, {LogspaceGrid}, {"none"})
NextSplit ==
    \/ PrepareData(FALSE)
    \/ SweepBegin(FALSE)
    \/ SweepIter(FALSE, OneDraw, FALSE)
    \/ Aggregate
    \/ FinalModel(OneDraw)
    \/ FinalModelRaises(OneDraw)
SpecSplit == InitSplit /\ [][NextSplit]_vars

\* Every grid and every solver stream; the generators follow one stream.
InitSweep == Init(BlockLabelings, Grids, {"none"})
NextSweep ==
    \/ PrepareData(TRUE)
    \/ SweepBegin(FALSE)
    \/ SweepIter(TRUE, SomeFitDraws, FALSE)
    \/ Aggregate
    \/ FinalModel(OneDraw)
    \/ FinalModelRaises(OneDraw)
SpecSweep == InitSweep /\ [][NextSweep]_vars

\* The sweep cell and the aggregation cell run again and again.
NextRerun ==
    \/ PrepareData(TRUE)
    \/ SweepBegin(TRUE)
    \/ SweepIter(TRUE, SomeFitDraws, FALSE)
    \/ Aggregate
    \/ FinalModel(OneDraw)
    \/ FinalModelRaises(OneDraw)
\* The grid of the notebooks and a grid that names one candidate MaxCand times.
RerunGrids == {LogspaceGrid, [i \in 1..MaxCand |-> 1]}
\* A table with as many rows of one class as of the other (within one row), and
\* a table with two rows of class 1.
RerunLabelings ==
    { lab \in BlockLabelings : Count(lab, Rows, 1) \in {2, NSamples \div 2} }
InitRerun == Init(RerunLabelings, RerunGrids, {"none"})
SpecRerun == InitRerun /\ [][NextRerun]_vars

\* Every coefficient vector the final fit can return.
InitReport == Init(BlockLabelings, {LogspaceGrid}, {"none"})
NextReport ==
    \/ PrepareData(TRUE)
    \/ SweepBegin(FALSE)
    \/ SweepIter(TRUE, OneDraw, FALSE)
    \/ Aggregate
    \/ FinalModel(CoefDraws)
    \/ FinalModelRaises(CoefDraws)
SpecReport == InitReport /\ [][NextReport]_vars

\* Every defect of the loaded files.
InitData == Init(BlockLabelings, {LogspaceGrid}, Defects)
NextData ==
    \/ PrepareDataRaises
    \/ PrepareData(TRUE)
    \/ SweepBegin(FALSE)
    \/ SweepIter(TRUE, SomeFitDraws, FALSE)
    \/ Aggregate
    \/ FinalModel(OneDraw)
    \/ FinalModelRaises(OneDraw)
SpecData == InitData /\ [][NextData]_vars
\* The sweep cell, once started, runs on: the loop is over a finite list and every
\* fit ends at max_iter at the latest.
SpecDataFair == SpecData /\ WF_vars(SweepIter(TRUE, SomeFitDraws, FALSE))

\* Every order in which the worker pool can end the fits of a candidate.
\* The grid of the notebooks, ascending and descending.
PoolGrids == {LogspaceGrid, Reversed(LogspaceGrid)}
InitPool == Init(RerunLabelings, PoolGrids, {"none"})
NextPool ==
    \/ PrepareData(TRUE)
    \/ SweepBegin(FALSE)
    \/ SweepIter(TRUE, SomeFitDraws, TRUE)
    \/ Aggregate
    \/ FinalModel(OneDraw)
    \/ FinalModelRaises(OneDraw)
SpecPool == InitPool /\ [][NextPool]_vars

----------------------------------------------------------------------------
(* Exercise 3.1 and the pre-processing notebook: dropna, StandardScaler,   *)
(* describe. One feature column (Length) and the outcome column.           *)

Values8 == 0..MaxVal
Files8 == [1..MaxRows -> [Length : Values8 \cup {NaN}, disease_linked : Classes]]

\* pd.read_csv: the rows get the index labels 0..n-1 (here 1..n).
ReadCsv(file) ==
    [i \in DOMAIN file |->
       [index |-> i, Length |-> file[i].Length, disease_linked |-> file[i].disease_linked]]

HasLength(row) == row.Length # NaN
\* data8.dropna(subset = [...]): the rows without a missing value, each with the
\* index label it had.
Dropna(table) == SelectSeq(table, HasLength)

\* A column of a table as a Series: (index label, value) pairs.
Column(table, name) ==
    [i \in DOMAIN table |-> [index |-> table[i].index, value |-> table[i][name]]]

KeepIndex(series) == series
\* Series.reset_index(drop=True): the values in their order, labelled 0..n-1
\* (here 1..n).
ResetIndex(series) == [i \in DOMAIN series |-> [index |-> i, value |-> series[i].value]]

\* frame[name] = series: the series is aligned on the index labels of the
\* frame; a label the series does not have gets NaN.
Aligned(index, series) ==
    [i \in DOMAIN index |->
       IF \E j \in DOMAIN series : series[j].index = index[i]
       THEN series[CHOOSE j \in DOMAIN series : series[j].index = index[i]].value
       ELSE NaN]

\* n * (x - mean_), a whole number.
Centered(xs) == [i \in DOMAIN xs |-> Len(xs) * xs[i] - SeqSum(xs)]
SumSq(cs) == SeqSum([i \in DOMAIN cs |-> cs[i] * cs[i]])

ScaleVarSample(xs) ==
    [num |-> SumSq(Centered(xs)), den |-> Len(xs) * Len(xs) * (Len(xs) - 1)]
\* StandardScaler.fit: var_ is the variance with divisor n.
ScaleVar(xs) ==
    [num |-> SumSq(Centered(xs)), den |-> Len(xs) * Len(xs) * Len(xs)]

\* StandardScaler.fit_transform: (x - mean_) / scale_ with scale_ = sqrt(var_),
\* and scale_ = 1 for a column of zero variance. The square root is not
\* rational: a scaled value is kept as num * sqrt(r2[1] / r2[2]), with the same
\* r2 down the column.
FitTransform(xs) ==
    LET n == Len(xs)
        var_ == ScaleVar(xs)
        r2 == IF var_.num = 0 THEN <<1, n * n>> ELSE <<var_.den, n * n * var_.num>>
    IN [i \in DOMAIN xs |-> [num |-> Centered(xs)[i], r2 |-> r2]]

\* DataFrame.describe() of a scaled column: count, mean, and std with divisor
\* count - 1 (kept as its square), nan for a single row.
Describe(zs) ==
    LET nums == [i \in DOMAIN zs |-> zs[i].num]
        r2 == zs[1].r2
    IN [count |-> Len(zs),
        mean |-> [num |-> SeqSum(nums), r2 |-> r2, den |-> Len(zs)],
        std |-> IF Len(zs) < 2 THEN NaNStat
                ELSE [nan |-> FALSE,
                      num |-> (Len(zs) * SumSq(nums) - SeqSum(nums) * SeqSum(nums)) * r2[1],
                      den |-> Len(zs) * (Len(zs) - 1) * r2[2]]]

DropnaCell ==
    /\ cell8 = "loaded"
    /\ data8' = Dropna(data8)
    /\ cell8' = "dropped"
    /\ UNCHANGED <<exceptScale, file8, described8>>

ScaleCell ==
    /\ cell8 = "dropped"
    /\ Len(data8) > 0
    /\ LET features == Column(data8, "Length")
           outcome == Column(data8, "disease_linked")
           scaled_features == FitTransform([i \in DOMAIN features |-> features[i].value])
           scaled_index == [i \in DOMAIN scaled_features |-> i]
           labels == Aligned(scaled_index, ResetIndex(outcome))
           scaled == [i \in DOMAIN scaled_features |->
                        [index |-> scaled_index[i], Length |-> scaled_features[i],
                         disease_linked |-> labels[i]]]
       IN /\ data8' = scaled
          /\ described8' = Describe([i \in DOMAIN scaled |-> scaled[i].Length])
    /\ cell8' = "scaled"
    /\ UNCHANGED <<exceptScale, file8>>

\* check_array: fit_transform raises ValueError on a table without rows.
ScaleCellRaises ==
    /\ cell8 = "dropped"
    /\ Len(data8) = 0
    /\ cell8' = "raised"
    /\ UNCHANGED <<exceptScale, file8, data8, described8>>

\* Every file of MaxRows rows, with and without missing values.
InitScale ==
    /\ LassoIdle
    /\ NotRunBut("scale")
    /\ file8 \in Files8
    /\ data8 = ReadCsv(file8)
    /\ described8 = Unset
    /\ cell8 = "loaded"
NextScale ==
    \/ DropnaCell
    \/ ScaleCell
    \/ ScaleCellRaises
SpecScale == InitScale /\ [][NextScale]_vars

----------------------------------------------------------------------------
(* Examples 4.1 and 4.3, Section 4.2: multipletests(..., method='fdr_bh')  *)
(* and the two counts                                                      *)

RECURSIVE Pow2(_)
Pow2(e) == IF e = 0 THEN 1 ELSE 2 * Pow2(e - 1)

\* p-values are whole multiples of 1 / PDen; the ones of the tables are 0,
\* 1/2^MaxExp, 2/2^MaxExp and 1.
PDen == Pow2(MaxExp)
PVals == {0, 1, 2, PDen}
\* alpha = 0.05, as the fraction 1 / 20
alpha == <<1, 20>>

\* odds ratios: 1, and a value other than 1
OddsVals == {1, 2}

\* Fractions <<numerator, denominator>> with positive denominators.
FracLess(a, b) == a[1] * b[2] < b[1] * a[2]
FracMin(a, b) == IF FracLess(b, a) THEN b ELSE a

\* pvals / ecdffactor with ecdffactor = rank / ntests
CorrectedRaw(sorted) ==
    [j \in DOMAIN sorted |-> <<sorted[j] * Len(sorted), PDen * j>>]

\* np.minimum.accumulate(raw[::-1])[::-1]: the least of the values from j on
RECURSIVE MinFrom(_, _)
MinFrom(raw, j) ==
    IF j = Len(raw) THEN raw[j] ELSE FracMin(raw[j], MinFrom(raw, j + 1))

\* pvals_corrected[pvals_corrected > 1] = 1
Clipped(q) == IF q[1] > q[2] THEN <<1, 1>> ELSE q

\* fdrcorrection on sorted p-values
FdrCorrection(sorted) ==
    [j \in DOMAIN sorted |-> Clipped(MinFrom(CorrectedRaw(sorted), j))]

ReturnSorted(sortind, corrected) == corrected
\* pvals_corrected_[sortind] = pvals_corrected: back to the order given
Unsorted(sortind, corrected) ==
    [i \in DOMAIN corrected |->
       corrected[CHOOSE j \in DOMAIN sortind : sortind[j] = i]]

\* multipletests: the corrected p-values for every order np.argsort can
\* return.
Multipletests(pvals) ==
    { Unsorted(sortind, FdrCorrection(Take(pvals, sortind))) : sortind \in ArgSorts(pvals) }

\* (column < alpha).sum(), in Example 4.1 & (odds_ratios != 1.0)
CountAccepted(table, column, filtered) ==
    Cardinality({ i \in DOMAIN table :
                    /\ FracLess(table[i][column], alpha)
                    /\ filtered => table[i].odds_ratios # 1 })

BhCell ==
    /\ cell9 = "loaded"
    /\ \E pvals_corrected \in Multipletests([i \in DOMAIN data9 |-> data9[i].p_value[1]]) :
         LET adjusted == [i \in DOMAIN data9 |->
                            [p_value |-> data9[i].p_value,
                             odds_ratios |-> data9[i].odds_ratios,
                             p_value_adjust |-> pvals_corrected[i]]]
         IN /\ data9' = adjusted
            /\ N_uncorr_acc' = CountAccepted(adjusted, "p_value", filter9)
            /\ N_corr_acc' = CountAccepted(adjusted, "p_value_adjust", filter9)
    /\ cell9' = "corrected"
    /\ UNCHANGED <<exceptBh, filter9>>

\* Every table of MaxTests results: with odds ratios and the filter on them
\* (Example 4.1), and without (Section 4.2, Example 4.3; the column is filled
\* with a value other than 1).
InitBh ==
    /\ LassoIdle
    /\ NotRunBut("bh")
    /\ filter9 \in BOOLEAN
    /\ data9 \in [1..MaxTests -> [p_value : {<<p, PDen>> : p \in PVals},
                                 odds_ratios : IF filter9 THEN OddsVals ELSE {2},
                                 p_value_adjust : {Unset}]]
    /\ N_uncorr_acc = 0 /\ N_corr_acc = 0
    /\ cell9 = "loaded"
NextBh == BhCell
SpecBh == InitBh /\ [][NextBh]_vars

----------------------------------------------------------------------------
(* Section 1.1: the counts a, b, c, d, the contingency table, fisher_exact *)

\* A cell of the two columns: True (1), False (0), or neither (a missing
\* value).
CellVals == {1, 0, NaN}
RowKinds == [NativeEnt : CellVals, NonRefoldable : CellVals]
RowRank(row) == 3 * row.NativeEnt + row.NonRefoldable
\* Every table of MaxProteins rows up to the order of the rows: the masks look
\* at one row at a time.
Tables1 ==
    { t \in [1..MaxProteins -> RowKinds] :
        \A i \in 1..(MaxProteins - 1) : RowRank(t[i]) <= RowRank(t[i + 1]) }

\* len(data1[(data1["NativeEnt"] == f) & (data1["NonRefoldable"] == o)])
LenWhere(table, f, o) ==
    Len(SelectSeq(table, LAMBDA row : row.NativeEnt = f /\ row.NonRefoldable = o))

ColumnsByRow(counts) ==
    [Misfolded |-> <<counts.a, counts.b>>, NotMisfolded |-> <<counts.c, counts.d>>]
\* The dict the DataFrame is built from: column -> values by index label.
Columns(counts) ==
    [Misfolded |-> <<counts.a, counts.c>>, NotMisfolded |-> <<counts.b, counts.d>>]
\* pd.DataFrame(columns, index = [entangled, not entangled]): row r holds entry r
\* of each column.
DataFrame(columns) == [r \in 1..2 |-> <<columns.Misfolded[r], columns.NotMisfolded[r]>>]

\* fisher_exact(table)[0]: nan if a row or a column of the table sums to 0, the
\* sample odds ratio if both off-diagonal counts are positive, inf otherwise.
FisherOddsRatio(t) ==
    IF \/ t[1][1] + t[1][2] = 0 \/ t[2][1] + t[2][2] = 0
       \/ t[1][1] + t[2][1] = 0 \/ t[1][2] + t[2][2] = 0
    THEN [kind |-> "nan", num |-> 0, den |-> 0]
    ELSE IF t[2][1] > 0 /\ t[1][2] > 0
         THEN [kind |-> "finite", num |-> t[1][1] * t[2][2], den |-> t[2][1] * t[1][2]]
         ELSE [kind |-> "inf", num |-> 0, den |-> 0]

TableCell ==
    /\ cell1 = "loaded"
    /\ LET counts == [a |-> LenWhere(data1, 1, 1), b |-> LenWhere(data1, 1, 0),
                      c |-> LenWhere(data1, 0, 1), d |-> LenWhere(data1, 0, 0)]
       IN /\ abcd' = counts
          /\ contingency_table' = DataFrame(Columns(counts))
    /\ cell1' = "tabled"
    /\ UNCHANGED <<exceptFisher, data1, odds_ratio>>

FisherCell ==
    /\ cell1 = "tabled"
    /\ odds_ratio' = FisherOddsRatio(contingency_table)
    /\ cell1' = "tested"
    /\ UNCHANGED <<exceptFisher, data1, abcd, contingency_table>>

InitFisher ==
    /\ LassoIdle
    /\ NotRunBut("fisher")
    /\ data1 \in Tables1
    /\ abcd = Unset /\ contingency_table = Unset /\ odds_ratio = Unset
    /\ cell1 = "loaded"
NextFisher ==
    \/ TableCell
    \/ FisherCell
SpecFisher == InitFisher /\ [][NextFisher]_vars

----------------------------------------------------------------------------
(* Example 2.1: drop_duplicates and the left merge on gene                 *)

Genes == 1..MaxGenes

\* data4_p1: a gene per row; rest stands for the other columns of the row.
Tables4_p1 ==
    { [i \in 1..MaxMergeRows |-> [gene |-> g[i], rest |-> i]] : g \in [1..MaxMergeRows -> Genes] }
\* The length file: a gene per row, every row with a length of its own.
Files4_p2 ==
    { [i \in 1..MaxMergeRows |-> [gene |-> g[i], uniprot_length |-> i]] :
        g \in [1..MaxMergeRows -> Genes] }

KeepAll(table) == table
\* drop_duplicates(subset = "gene", keep = "first"): a row stays unless a row
\* before it has its gene.
DropDuplicates(table) ==
    LET Firsts == {i \in DOMAIN table : \A j \in 1..(i - 1) : table[j].gene # table[i].gene}
    IN [k \in 1..Cardinality(Firsts) |-> table[Sorted(Firsts)[k]]]

\* The rows a left row gives in a left merge: one per right row with its gene,
\* in the order of the right table, and one with a missing length if there is
\* none.
MergedRows(row, right) ==
    LET Matching == {j \in DOMAIN right : right[j].gene = row.gene}
    IN IF Matching = {}
       THEN <<[gene |-> row.gene, rest |-> row.rest, uniprot_length |-> NaN]>>
       ELSE [k \in 1..Cardinality(Matching) |->
               [gene |-> row.gene, rest |-> row.rest,
                uniprot_length |-> right[Sorted(Matching)[k]].uniprot_length]]

\* pd.merge(left, right, on = "gene", how = "left"): the rows of the left rows,
\* in the order of the left table.
RECURSIVE MergeFrom(_, _, _)
MergeFrom(left, right, i) ==
    IF i > Len(left) THEN <<>>
    ELSE MergedRows(left[i], right) \o MergeFrom(left, right, i + 1)
Merge(left, right) == MergeFrom(left, right, 1)

MergeCell ==
    /\ cell4 = "loaded"
    /\ data4_p2' = DropDuplicates(data4_p2)
    /\ data4_final' = Merge(data4_p1, DropDuplicates(data4_p2))
    /\ cell4' = "merged"
    /\ UNCHANGED <<exceptMerge, csv4_p2, data4_p1>>

InitMerge ==
    /\ LassoIdle
    /\ NotRunBut("merge")
    /\ csv4_p2 \in Files4_p2
    /\ data4_p1 \in Tables4_p1
    /\ data4_p2 = csv4_p2
    /\ data4_final = <<>>
    /\ cell4 = "loaded"
NextMerge == MergeCell
SpecMerge == InitMerge /\ [][NextMerge]_vars

----------------------------------------------------------------------------
(* The pre-processing notebook: resample, concat, sample(frac=1)           *)

\* data3: MaxData3 rows, the rows of outcome 0 first; features stands for the
\* feature columns of a row, different from row to row.
Tables3 ==
    { [i \in 1..MaxData3 |-> [index |-> i, target_value |-> IF i <= k THEN 0 ELSE 1,
                              features |-> i]] : k \in 0..MaxData3 }

\* data3[data3['target_value'] == c]
WhereTarget(table, c) == SelectSeq(table, LAMBDA row : row.target_value = c)

\* The ways to line up n places of 1..m without repeating one.
Arrangements(m, n) ==
    { p \in [1..n -> 1..m] : \A i, j \in 1..n : i # j => p[i] # p[j] }

ResampleWithReplacement(table, n) ==
    { [i \in 1..n |-> table[p[i]]] : p \in [1..n -> DOMAIN table] }
\* resample(table, replace=False, n_samples=n, random_state=random_seed): the
\* first n rows of a shuffle of the table.
Resample(table, n) ==
    { [i \in 1..n |-> table[p[i]]] : p \in Arrangements(Len(table), n) }

\* table.sample(frac=1, random_state=random_seed): the rows in a shuffled
\* order, each with its index label.
SampleAll(table) ==
    { [i \in DOMAIN table |-> table[p[i]]] : p \in Arrangements(Len(table), Len(table)) }

\* DataFrame.reset_index(drop=True): the rows in their order, labelled 0..n-1
\* (here 1..n).
ResetFrameIndex(table) ==
    [i \in DOMAIN table |->
       [index |-> i, target_value |-> table[i].target_value, features |-> table[i].features]]

\* resample raises ValueError when asked for more rows than there are.
ResampleRaises ==
    /\ cell3 = "loaded"
    /\ \/ Len(WhereTarget(data3, 0)) < n_samples
       \/ Len(WhereTarget(data3, 1)) < n_samples
    /\ cell3' = "raised"
    /\ UNCHANGED <<exceptBalance, data3, majority_downsampled, minority_downsampled, balanced>>

ResampleStep ==
    /\ cell3 = "loaded"
    /\ Len(WhereTarget(data3, 0)) >= n_samples
    /\ Len(WhereTarget(data3, 1)) >= n_samples
    /\ majority_downsampled' \in Resample(WhereTarget(data3, 0), n_samples)
    /\ minority_downsampled' \in Resample(WhereTarget(data3, 1), n_samples)
    /\ cell3' = "resampled"
    /\ UNCHANGED <<exceptBalance, data3, balanced>>

\* pd.concat([...]) and the shuffle
ShuffleStep ==
    /\ cell3 = "resampled"
    /\ \E shuffled \in SampleAll(majority_downsampled \o minority_downsampled) :
         balanced' = ResetFrameIndex(shuffled)
    /\ cell3' = "balanced"
    /\ UNCHANGED <<exceptBalance, data3, majority_downsampled, minority_downsampled>>

InitBalance ==
    /\ LassoIdle
    /\ NotRunBut("balance")
    /\ data3 \in Tables3
    /\ majority_downsampled = <<>> /\ minority_downsampled = <<>> /\ balanced = <<>>
    /\ cell3 = "loaded"
NextBalance ==
    \/ ResampleRaises
    \/ ResampleStep
    \/ ShuffleStep
SpecBalance == InitBalance /\ [][NextBalance]_vars

----------------------------------------------------------------------------
(* Properties                                                              *)

Swept == pc \in {"swept", "aggregated", "reported"}
SplitsOf(l) == results_dict[l].splits
RowsOfSplits(l) ==
    UNION { SplitsOf(l)[i].train \cup SplitsOf(l)[i].test : i \in DOMAIN SplitsOf(l) }

\* C1: after the split every row of the table is in exactly one of the training
\* part and the holdout part, and no row the final model is scored on is a row
\* final_model.fit was given or a row of any cross-validation rotation.
C1_HoldoutDisjoint ==
    /\ pc # "start" =>
         /\ X_train \cup X_holdout = Rows
         /\ X_train \cap X_holdout = {}
    /\ \A l \in DOMAIN results_dict : X_holdout \cap RowsOfSplits(l) = {}
    /\ pc = "reported" =>
         /\ holdout.rows \cap final_model.fit_rows = {}
         /\ \A l \in DOMAIN results_dict : holdout.rows \cap RowsOfSplits(l) = {}

C1_Witness ==
    /\ pc = "reported"
    /\ holdout.rows # {}
    /\ final_model.fit_rows # {}
    /\ Cardinality(DOMAIN results_dict) >= 2

\* C2: for every candidate the k rotations partition the training part: every
\* training row is validated on in exactly one rotation and trained on in the
\* other k-1, and no rotation trains and validates on the same row.
C2_FoldsPartition ==
    \A l \in DOMAIN results_dict :
        /\ DOMAIN SplitsOf(l) = 1..Nfolds
        /\ \A i \in 1..Nfolds :
             /\ SplitsOf(l)[i].train \cap SplitsOf(l)[i].test = {}
             /\ SplitsOf(l)[i].train \cup SplitsOf(l)[i].test = X_train
        /\ \A r \in X_train :
             /\ Cardinality({i \in 1..Nfolds : r \in SplitsOf(l)[i].test}) = 1
             /\ Cardinality({i \in 1..Nfolds : r \in SplitsOf(l)[i].train}) = Nfolds - 1

C2_Witness ==
    /\ pc = "swept"
    /\ Cardinality(DOMAIN results_dict) >= 2
    /\ \E l \in DOMAIN results_dict : \A i \in 1..Nfolds :
           Cardinality(SplitsOf(l)[i].test) >= 2

\* C3: within one sweep every candidate is cross-validated on the same folds: kf
\* carries the integer seed, and each cross_validate call gets from it the split
\* every other call got.
C3_SameFoldsForAll ==
    /\ pc # "start" => kf.random_state = <<random_seed>>
    /\ \A l1, l2 \in DOMAIN results_dict : SplitsOf(l1) = SplitsOf(l2)

C3_Witness ==
    /\ pc = "swept"
    /\ Cardinality(DOMAIN results_dict) >= 2
    /\ Cardinality(TestFolds(y, X_train, first_label, Nfolds)) >= 2

\* C4: a class with n_c rows in the training part has floor(n_c/k) or ceil(n_c/k)
\* rows in the validation portion of every rotation.
C4_StratifiedWithinRounding ==
    \A l \in DOMAIN results_dict : \A i \in DOMAIN SplitsOf(l) : \A c \in Classes :
        LET n_c == Count(y, X_train, c)
            k == kf.n_splits
        IN Count(y, SplitsOf(l)[i].test, c) \in {n_c \div k, (n_c + k - 1) \div k}

C4_Witness ==
    /\ pc = "swept"
    /\ \E c \in Classes :
         /\ Count(y, X_train, c) > Nfolds
         /\ Count(y, X_train, c) % Nfolds # 0
         /\ \E l \in DOMAIN results_dict : \E i, j \in 1..Nfolds :
                Count(y, SplitsOf(l)[i].test, c) < Count(y, SplitsOf(l)[j].test, c)

SummaryLambdas == [i \in DOMAIN SummaryRows |-> SummaryRows[i].lambda_val]
StrictlyAscending(s) == \A i, j \in DOMAIN s : i < j => s[i] < s[j]
InUnitInterval(m) == ~m.nan /\ 0 <= m.num /\ m.num <= m.den * ScoreScale
OneClassValidation(l) ==
    \E i \in DOMAIN SplitsOf(l) : Cardinality(ClassesIn(y, SplitsOf(l)[i].test)) < 2

\* C5 as stated: the aggregate rows come in the order in which the caller
\* supplied the candidates, ascending or not.
C5_SuppliedOrder == pc = "aggregated" => SummaryLambdas = grid

\* C5 as amended: the aggregate rows come in ascending order of the candidate
\* value, one row per distinct supplied candidate; that is the supplied order
\* exactly when the supplied sequence is strictly ascending.
C5_AscendingOrder ==
    pc = "aggregated" =>
        /\ StrictlyAscending(SummaryLambdas)
        /\ SeqToSet(SummaryLambdas) = SeqToSet(grid)
        /\ (SummaryLambdas = grid) <=> StrictlyAscending(grid)

C5_Witness ==
    /\ pc = "aggregated"
    /\ Len(grid) >= 2
    /\ grid[1] > grid[2]
    /\ SummaryLambdas = <<grid[2], grid[1]>>

C7_SameAggregatesOnRerun ==
    [][(pc = "swept" /\ pc' = "aggregated" /\ Len(bal_acc_means) > 0)
         => aggVars' = aggVars]_vars

\* C8: the reported coefficients are in non-increasing order of magnitude.
C8_DescendingMagnitude ==
    pc = "reported" =>
        \A i, j \in DOMAIN sorted_coefs :
            i < j => Abs(sorted_coefs[i]) >= Abs(sorted_coefs[j])

C8_Witness ==
    /\ pc = "reported"
    /\ Len(sorted_coefs) >= 3
    /\ Abs(sorted_coefs[1]) > Abs(sorted_coefs[Len(sorted_coefs)])

\* C9 as stated: of two reported features with coefficients of equal magnitude,
\* the one in the earlier column is listed first.
C9_TiesInColumnOrder ==
    pc = "reported" =>
        \A i, j \in DOMAIN sorted_coefs :
            (i < j /\ Abs(sorted_coefs[i]) = Abs(sorted_coefs[j]))
                => sorted_features[i] < sorted_features[j]

\* C9 as amended: reported features with coefficients of equal magnitude are
\* each listed once, next to one another (nothing of another magnitude comes
\* between them), in an order the code does not fix.
C9_TiesAdjacent ==
    pc = "reported" =>
        \A i, j \in DOMAIN sorted_coefs :
            (i < j /\ Abs(sorted_coefs[i]) = Abs(sorted_coefs[j]))
                => /\ sorted_features[i] # sorted_features[j]
                   /\ \A m \in i..j : Abs(sorted_coefs[m]) = Abs(sorted_coefs[i])

C9_Witness ==
    /\ pc = "reported"
    /\ \E i, j \in DOMAIN sorted_coefs :
         /\ i < j
         /\ Abs(sorted_coefs[i]) = Abs(sorted_coefs[j])
         /\ sorted_features[i] > sorted_features[j]
    /\ \E m \in DOMAIN sorted_coefs : Abs(sorted_coefs[m]) # Abs(sorted_coefs[1])

\* C10: non-zero means different from 0, with no tolerance: the non-zero counts
\* the aggregation averages are the numbers of coefficients different from 0, and
\* the report lists exactly the features whose fitted coefficient differs from 0,
\* each with that coefficient.
C10_ExactlyNonzero ==
    /\ pc = "aggregated" =>
         \A i \in DOMAIN nonzero_means :
             LET est == results_dict[lambda_vals[i]].estimator
             IN /\ ~nonzero_means[i].nan
                /\ nonzero_means[i].den = Len(est)
                /\ nonzero_means[i].num =
                     SeqSum([n \in DOMAIN est |->
                               Cardinality({f \in Features : est[n].coef_[f] # 0})])
    /\ pc = "reported" =>
         /\ SeqToSet(sorted_features) = {f \in Features : final_model.coef_[f] # 0}
         /\ Len(sorted_features) = Cardinality(SeqToSet(sorted_features))
         /\ Len(sorted_coefs) = Len(sorted_features)
         /\ \A i \in DOMAIN sorted_features :
                sorted_coefs[i] = final_model.coef_[sorted_features[i]]

C10_Witness ==
    /\ pc = "reported"
    /\ Len(nonzero_means) > 0
    /\ \E i \in DOMAIN sorted_coefs : Abs(sorted_coefs[i]) = 1
    /\ \E f \in Features : final_model.coef_[f] = 0
    /\ \E l \in DOMAIN results_dict : \E n \in 1..Nfolds :
           \E f \in Features : Abs(results_dict[l].estimator[n].coef_[f]) = 1

\* C11: the final model is fitted once, on every row of the training part, and
\* scored once, on the holdout part: the names of the final-model cell are bound
\* in one step and never again, and until that step no cross-validation rotation
\* has read a holdout row.
C11_FitOnceEvalOnce ==
    [][/\ pc \in {"start", "ready", "sweeping"} => UNCHANGED finalVars
       /\ pc = "reported" => UNCHANGED finalVars
       /\ pc' = "reported" /\ pc # "reported" =>
            /\ final_model'.fit_rows = X_train
            /\ holdout'.rows = X_holdout
            /\ X_train \cap X_holdout = {}
            /\ \A l \in DOMAIN results_dict : RowsOfSplits(l) \cap X_holdout = {}]_vars

C11_Witness ==
    /\ pc = "reported"
    /\ final_model.fit_rows = X_train
    /\ holdout.rows = X_holdout
    /\ \E l \in DOMAIN results_dict : \E i \in 1..Nfolds :
           /\ SplitsOf(l)[i].train # final_model.fit_rows
           /\ SplitsOf(l)[i].train \subseteq final_model.fit_rows

KeptBy(l, n) == Cardinality({f \in Features : results_dict[l].estimator[n].coef_[f] # 0})
FoldsShrink(l1, l2) == \A n \in 1..Nfolds : KeptBy(l2, n) <= KeptBy(l1, n)

TwoClassTraining(l, n) == Cardinality(ClassesIn(y, SplitsOf(l)[n].train)) = 2

\* C13: a fit that runs into the iteration bound does not end the sweep and is
\* kept like any other: every candidate stores k estimators and k scores of each
\* kind, a fold with both classes to train on has a fitted estimator and a
\* balanced accuracy whether or not its fit converged, and every aggregate is
\* taken over all k folds, the unconverged ones included.
C13_UnconvergedIncluded ==
    /\ \A l \in DOMAIN results_dict :
         /\ DOMAIN results_dict[l].estimator = 1..Nfolds
         /\ DOMAIN results_dict[l].test_balanced_accuracy = 1..Nfolds
         /\ DOMAIN results_dict[l].test_roc_auc = 1..Nfolds
         /\ \A n \in 1..Nfolds :
              TwoClassTraining(l, n) =>
                  /\ results_dict[l].estimator[n].fitted
                  /\ results_dict[l].test_balanced_accuracy[n] \in ScoreVals
    /\ pc = "aggregated" =>
         \A i \in DOMAIN bal_acc_means :
             LET cv == results_dict[lambda_vals[i]]
             IN /\ bal_acc_means[i].den = Nfolds
                /\ bal_acc_means[i].num =
                     SeqSum([n \in 1..Nfolds |-> cv.test_balanced_accuracy[n]])
                /\ nonzero_means[i].den = Nfolds
                /\ nonzero_means[i].num =
                     SeqSum([n \in 1..Nfolds |-> KeptBy(lambda_vals[i], n)])

C13_Witness ==
    /\ pc = "aggregated"
    /\ Len(grid) = 2
    /\ grid[1] # grid[2]
    /\ ~results_dict[grid[1]].estimator[1].converged
    /\ results_dict[grid[1]].estimator[2].converged
    /\ \A n \in 1..Nfolds : results_dict[grid[2]].estimator[n].converged
    /\ Len(bal_acc_means) = 2
    /\ \E i \in 1..2 : lambda_vals[i] = grid[1] /\ nonzero_means[i].num = NFeatures + 1

\* C14: a fit that did not converge within the iteration bound leaves a
\* convergence warning on the result stored for its candidate and fold.
C14_WarningCarried ==
    \A l \in DOMAIN results_dict : \A n \in DOMAIN results_dict[l].estimator :
        (results_dict[l].estimator[n].fitted /\ ~results_dict[l].estimator[n].converged)
            => n \in ConvergenceWarnings(results_dict[l])

OneClassFold(l, n) == Cardinality(ClassesIn(y, SplitsOf(l)[n].test)) < 2
SweepRaised == pc = "raised" /\ lambda_i >= 1 /\ lambda_i <= Len(lambda_vals)

C17_NoFailureStored ==
    /\ pc = "swept" => DOMAIN results_dict = SeqToSet(lambda_vals)
    /\ \A l \in DOMAIN results_dict : \A n \in 1..Nfolds :
         /\ results_dict[l].estimator[n].fitted
         /\ results_dict[l].test_roc_auc[n] # NaN

StoredAsNaN(l, n) ==
    /\ ~results_dict[l].estimator[n].fitted
    /\ results_dict[l].test_balanced_accuracy[n] = NaN
    /\ results_dict[l].test_roc_auc[n] = NaN

\* C17 as amended: a sweep that has been started ends, either normally with a
\* result stored for every candidate or with an exception; a fold whose fit
\* raised is stored with nan scores and an unfitted estimator, unless every fit
\* of the candidate raised, in which case the sweep ends with ValueError and the
\* candidate is not stored.
C17_CompletesOrRaises ==
    /\ [](/\ pc = "swept" => DOMAIN results_dict = SeqToSet(lambda_vals) /\ raised = None
          /\ pc = "sweeping" => raised = None
          /\ SweepRaised =>
               /\ raised = "ValueError"
               /\ lambda_vals[lambda_i] \notin DOMAIN results_dict
          /\ \A l \in DOMAIN results_dict :
               /\ \E n \in 1..Nfolds : results_dict[l].estimator[n].fitted
               /\ \A n \in 1..Nfolds :
                    IF TwoClassTraining(l, n)
                    THEN results_dict[l].estimator[n].fitted
                    ELSE StoredAsNaN(l, n))
    /\ (pc = "sweeping") ~> (pc = "swept" \/ pc = "raised")

C17_Witness ==
    /\ pc = "swept"
    /\ defect = "none"
    /\ Cardinality(DOMAIN results_dict) = 2
    /\ \E n, m \in 1..Nfolds :
         /\ StoredAsNaN(grid[1], n)
         /\ results_dict[grid[1]].estimator[m].fitted

C19_DataUnchanged ==
    [][pc # "start" =>
         /\ UNCHANGED <<y, X_train, X_holdout, first_label, kf>>
         /\ kf.random_state = <<random_seed>>]_vars

C19_Witness ==
    /\ pc = "reported"
    /\ Len(bal_acc_means) >= 1
    /\ kf = NewKf
    /\ X_train \cup X_holdout = Rows
    /\ final_model.fit_rows = X_train
    /\ lambda_i = 2

ByFold(l) == results_dict[l].by_fold

\* C20: the order in which the worker pool ends the fits of a candidate, and the
\* order in which the candidates are swept, change nothing: entry n of every
\* stored result is what the fit of fold n returned, and every aggregate is the
\* mean or deviation of the per-fold values taken in fold order, listed by
\* ascending candidate.
C20_JoinedInFoldOrder ==
    /\ \A l \in DOMAIN results_dict : \A n \in 1..Nfolds :
         /\ results_dict[l].estimator[n] = ByFold(l)[n].estimator
         /\ results_dict[l].test_balanced_accuracy[n] = ByFold(l)[n].bal
         /\ results_dict[l].test_roc_auc[n] = ByFold(l)[n].auc
    /\ pc = "aggregated" =>
         /\ lambda_vals = Sorted(SeqToSet(grid))
         /\ \A i \in DOMAIN bal_acc_means :
              LET f == ByFold(lambda_vals[i])
              IN /\ bal_acc_means[i] = Mean([n \in 1..Nfolds |-> f[n].bal])
                 /\ bal_acc_stds[i] = Std([n \in 1..Nfolds |-> f[n].bal])
                 /\ auroc_means[i] = Mean([n \in 1..Nfolds |-> f[n].auc])
                 /\ auroc_stds[i] = Std([n \in 1..Nfolds |-> f[n].auc])
                 /\ nonzero_means[i].num =
                      SeqSum([n \in 1..Nfolds |->
                                Cardinality({c \in Features : f[n].estimator.coef_[c] # 0})])

C20_Witness ==
    /\ pc = "aggregated"
    /\ Len(grid) = 2
    /\ grid[1] > grid[2]
    /\ ~results_dict[grid[1]].in_order
    /\ results_dict[grid[2]].in_order
    /\ ByFold(grid[1])[1] # ByFold(grid[1])[2]
    /\ Len(bal_acc_means) = 2

\* m is the arithmetic mean of the values xs, or nan when one of them is nan.
IsMeanOf(m, xs) ==
    IF \E n \in DOMAIN xs : xs[n] = NaN THEN m.nan
    ELSE /\ ~m.nan
         /\ m.num * Len(xs) = SeqSum(xs) * m.den
\* d is the square of the sample standard deviation of xs: the sum of the squared
\* distances to the mean over Len(xs) - 1. With S the sum and k the number of
\* values, the sum over n of (k * xs[n] - S)^2 is k^2 times that sum.
IsSampleStdOf(d, xs) ==
    IF \E n \in DOMAIN xs : xs[n] = NaN THEN d.nan
    ELSE LET k == Len(xs)
             S == SeqSum(xs)
         IN /\ ~d.nan
            /\ d.num * k * k * (k - 1)
                 = SeqSum([n \in DOMAIN xs |-> (k * xs[n] - S) * (k * xs[n] - S)]) * d.den

\* C21: for every candidate the six reported statistics are the arithmetic mean
\* and the sample standard deviation (divisor k-1) of the candidate's k per-fold
\* balanced accuracies, AUROCs and non-zero counts.
C21_MeanAndSampleStd ==
    pc = "aggregated" =>
        \A i \in DOMAIN bal_acc_means :
            LET cv == results_dict[lambda_vals[i]]
                counts == [n \in 1..Nfolds |-> KeptBy(lambda_vals[i], n)]
            IN /\ Len(cv.test_balanced_accuracy) = Nfolds
               /\ Len(cv.test_roc_auc) = Nfolds
               /\ Len(cv.estimator) = Nfolds
               /\ IsMeanOf(bal_acc_means[i], cv.test_balanced_accuracy)
               /\ IsSampleStdOf(bal_acc_stds[i], cv.test_balanced_accuracy)
               /\ IsMeanOf(auroc_means[i], cv.test_roc_auc)
               /\ IsSampleStdOf(auroc_stds[i], cv.test_roc_auc)
               /\ IsMeanOf(nonzero_means[i], counts)
               /\ IsSampleStdOf(nonzero_stds[i], counts)

C21_Witness ==
    /\ pc = "aggregated"
    /\ \E i \in DOMAIN bal_acc_means :
         /\ bal_acc_stds[i].num > 0
         /\ nonzero_stds[i].num > 0
         /\ ~auroc_stds[i].nan
         /\ bal_acc_means[i].num > 0

\* The whole numbers next to the share n_c / n of a part of the given size.
WithinRounding(count, n_c, size, n) ==
    count \in {(n_c * size) \div n, (n_c * size + n - 1) \div n}

\* C22: the holdout part is 20% of the rows, rounded up to a whole row, and the
\* training part is the rest; every class has in each part its share of the
\* full table within rounding.
C22_HoldoutShare ==
    pc # "start" =>
        LET n == Cardinality(Rows)
            n_holdout == Cardinality(X_holdout)
            n_train == Cardinality(X_train)
        IN /\ 5 * n_holdout >= n
           /\ 5 * n_holdout < n + 5
           /\ n_train = n - n_holdout
           /\ \A c \in Classes :
                /\ WithinRounding(Count(y, X_holdout, c), Count(y, Rows, c), n_holdout, n)
                /\ WithinRounding(Count(y, X_train, c), Count(y, Rows, c), n_train, n)

C22_Witness ==
    /\ pc = "ready"
    /\ \E c \in Classes :
         /\ (Count(y, Rows, c) * Cardinality(X_holdout)) % Cardinality(Rows) # 0
         /\ Count(y, X_holdout, c) = 0
    /\ Cardinality(X_holdout) * 5 # Cardinality(Rows)

\* The (name, value) lines of the report, in the order printed.
ReportLines == [i \in DOMAIN sorted_features |-> <<sorted_features[i], sorted_coefs[i]>>]

\* C24: the report zips a name list and a value list of the same length, line i
\* pairs a column of the feature matrix with the coefficient the final model
\* fitted for that column, no column is on two lines, and the lines are the
\* (column, coefficient) pairs of the non-zero coefficients.
C24_NameWithOwnCoefficient ==
    pc = "reported" =>
        /\ DOMAIN sorted_features = DOMAIN sorted_coefs
        /\ \A i \in DOMAIN ReportLines :
             /\ ReportLines[i][1] \in Features
             /\ ReportLines[i][2] = final_model.coef_[ReportLines[i][1]]
        /\ \A i, j \in DOMAIN ReportLines :
             ReportLines[i][1] = ReportLines[j][1] => i = j
        /\ SeqToSet(ReportLines)
             = { <<f, final_model.coef_[f]>> : f \in {g \in Features : final_model.coef_[g] # 0} }

C24_Witness ==
    /\ pc = "reported"
    /\ final_model.coef_[1] = 0
    /\ Len(ReportLines) >= 2
    /\ ReportLines[1][1] > ReportLines[2][1]
    /\ ReportLines[1][2] # ReportLines[2][2]

\* C26: the summary has one row per stored candidate, in ascending order of the
\* candidate; the six lists have the length of the candidate list; and the six
\* statistics of a row are those of the per-fold values stored under the
\* candidate printed on that row.
C26_RowPairedWithOwnResults ==
    pc = "aggregated" =>
        /\ \A lst \in {bal_acc_means, bal_acc_stds, auroc_means, auroc_stds,
                       nonzero_means, nonzero_stds} :
               DOMAIN lst = DOMAIN lambda_vals
        /\ DOMAIN SummaryRows = DOMAIN lambda_vals
        /\ {SummaryRows[i].lambda_val : i \in DOMAIN SummaryRows} = DOMAIN results_dict
        /\ \A i, j \in DOMAIN SummaryRows :
               i < j => SummaryRows[i].lambda_val < SummaryRows[j].lambda_val
        /\ \A i \in DOMAIN SummaryRows :
               LET row == SummaryRows[i]
                   own == results_dict[row.lambda_val]
                   counts == [n \in DOMAIN own.estimator |->
                                Cardinality({f \in Features : own.estimator[n].coef_[f] # 0})]
               IN /\ IsMeanOf(row.bal_acc[1], own.test_balanced_accuracy)
                  /\ IsSampleStdOf(row.bal_acc[2], own.test_balanced_accuracy)
                  /\ IsMeanOf(row.auroc[1], own.test_roc_auc)
                  /\ IsSampleStdOf(row.auroc[2], own.test_roc_auc)
                  /\ IsMeanOf(row.nonzero[1], counts)
                  /\ IsSampleStdOf(row.nonzero[2], counts)

\* Two rows from a grid given in descending order, with different statistics.
C26_Witness ==
    /\ pc = "aggregated"
    /\ Len(grid) = 2
    /\ grid[1] > grid[2]
    /\ Len(SummaryRows) = 2
    /\ SummaryRows[1].bal_acc[1] # SummaryRows[2].bal_acc[1]
    /\ SummaryRows[1].nonzero[1] # SummaryRows[2].nonzero[1]

\* The rows of the file that dropna keeps, by their place in the file.
IsKept8(i) == file8[i].Length # NaN
KeptSamples8 == SelectSeq([i \in DOMAIN file8 |-> i], IsKept8)
KeptValues8 == [i \in DOMAIN KeptSamples8 |-> file8[KeptSamples8[i]].Length]

\* A standard deviation whose square is p / q lies within 0.000001 of 1
\* (q below 1000000, so that the square of the tolerance is less than one unit).
WithinMillionthOfOne(p, q) ==
    /\ q > 0
    /\ IF p >= q THEN p - q <= (2 * q) \div 1000000
                 ELSE q - p <= (2 * q - 1) \div 1000000

\* C23 as stated: describe() shows for a standardized column a mean of 0 and a
\* standard deviation within 0.000001 of 1.
C23_ReadsBackZeroAndOne ==
    cell8 = "scaled" =>
        /\ described8.mean.num = 0
        /\ ~described8.std.nan
        /\ WithinMillionthOfOne(described8.std.num, described8.std.den)

\* C23 as amended: describe() shows for a standardized column of n rows a mean
\* of 0 and the standard deviation sqrt(n / (n - 1)): StandardScaler divides by
\* n, describe() by n - 1. A column of one value reads back 0, and a column of
\* one row reads back nan.
C23_ReadsBackSampleStd ==
    cell8 = "scaled" =>
        LET n == described8.count
            constant == \A i, j \in DOMAIN KeptValues8 : KeptValues8[i] = KeptValues8[j]
        IN /\ n = Len(KeptValues8)
           /\ described8.mean.num = 0
           /\ n = 1 => described8.std.nan
           /\ (n >= 2 /\ constant) => (~described8.std.nan /\ described8.std.num = 0)
           /\ (n >= 2 /\ ~constant) =>
                 /\ ~described8.std.nan
                 /\ described8.std.num * (n - 1) = described8.std.den * n

C23_Witness ==
    /\ cell8 = "scaled"
    /\ described8.count >= 3
    /\ described8.count < Len(file8)
    /\ ~described8.std.nan
    /\ described8.std.num > 0

\* C25: the scaled table has one row per row of the file without a missing
\* value, in the order of the file, and row i holds the scaled features and the
\* outcome label of the same row of the file; no label is missing.
C25_RowKeepsItsLabel ==
    cell8 = "scaled" =>
        /\ Len(data8) = Len(KeptSamples8)
        /\ \A i \in DOMAIN data8 :
             /\ data8[i].disease_linked \in Classes
             /\ data8[i].disease_linked = file8[KeptSamples8[i]].disease_linked
             /\ data8[i].Length.num
                  = Len(KeptValues8) * file8[KeptSamples8[i]].Length - SeqSum(KeptValues8)

\* The first row of the file was dropped, and the rows kept differ in label
\* and in feature value.
C25_Witness ==
    /\ cell8 = "scaled"
    /\ file8[1].Length = NaN
    /\ Len(data8) >= 2
    /\ data8[1].disease_linked # data8[2].disease_linked
    /\ data8[1].Length.num # data8[2].Length.num

\* The Benjamini-Hochberg adjusted p-value of row i from its definition: the
\* least, over the rows k with p_k >= p_i, of p_k * n / #{rows with p <= p_k},
\* and at most 1.
BhAdjusted(table, i) ==
    LET n == Len(table)
        AtMost(k) == Cardinality({m \in DOMAIN table : ~FracLess(table[k].p_value, table[m].p_value)})
        cand == { <<table[k].p_value[1] * n, table[k].p_value[2] * AtMost(k)>> :
                    k \in {m \in DOMAIN table : ~FracLess(table[m].p_value, table[i].p_value)} }
        least == CHOOSE q \in cand : \A r \in cand : ~FracLess(r, q)
    IN IF least[1] > least[2] THEN <<1, 1>> ELSE least
FracEq(a, b) == a[1] * b[2] = b[1] * a[2]

\* C27: every row keeps its p-value and carries the Benjamini-Hochberg adjusted
\* value of that p-value, which is at least the p-value and at most 1; so the
\* count of results below alpha with the adjusted values is at most the count
\* with the uncorrected values, with the filter odds ratio != 1 and without.
C27_AdjustedOnSameRow ==
    cell9 = "corrected" =>
        /\ \A i \in DOMAIN data9 :
             /\ FracEq(data9[i].p_value_adjust, BhAdjusted(data9, i))
             /\ ~FracLess(data9[i].p_value_adjust, data9[i].p_value)
             /\ ~FracLess(<<1, 1>>, data9[i].p_value_adjust)
        /\ N_corr_acc <= N_uncorr_acc
        /\ N_uncorr_acc =
             Cardinality({i \in DOMAIN data9 :
                            /\ 20 * data9[i].p_value[1] < data9[i].p_value[2]
                            /\ filter9 => data9[i].odds_ratios # 1})
        /\ N_corr_acc =
             Cardinality({i \in DOMAIN data9 :
                            /\ 20 * data9[i].p_value_adjust[1] < data9[i].p_value_adjust[2]
                            /\ filter9 => data9[i].odds_ratios # 1})

\* Unsorted p-values, one of them significant before the correction only, and
\* one significant after it too that the filter leaves out.
C27_Witness ==
    /\ cell9 = "corrected"
    /\ filter9
    /\ FracLess(data9[2].p_value, data9[1].p_value)
    /\ N_corr_acc < N_uncorr_acc
    /\ \E i \in DOMAIN data9 :
         /\ FracLess(data9[i].p_value_adjust, alpha)
         /\ data9[i].odds_ratios = 1
    /\ \E i \in DOMAIN data9 : FracLess(data9[i].p_value, data9[i].p_value_adjust)

\* The rows of data1 with the given feature and outcome values.
RowsWhere(f, o) == {i \in DOMAIN data1 : data1[i].NativeEnt = f /\ data1[i].NonRefoldable = o}
TwoValued == \A i \in DOMAIN data1 : data1[i].NativeEnt # NaN /\ data1[i].NonRefoldable # NaN

\* C28: a, b, c, d count four pairwise disjoint sets of rows (feature and outcome
\* present; feature only; outcome only; neither); they add up to the number of
\* rows when no cell holds a third value; the table handed to fisher_exact has
\* the rows (a, b) for feature present and (c, d) for feature absent, the columns
\* being outcome present and absent; and the odds ratio is (a * d) / (b * c), inf
\* for a positive number over 0 and nan for 0 over 0.
C28_ContingencyCounts ==
    /\ cell1 \in {"tabled", "tested"} =>
         /\ abcd.a = Cardinality(RowsWhere(1, 1))
         /\ abcd.b = Cardinality(RowsWhere(1, 0))
         /\ abcd.c = Cardinality(RowsWhere(0, 1))
         /\ abcd.d = Cardinality(RowsWhere(0, 0))
         /\ \A k1, k2 \in {<<1, 1>>, <<1, 0>>, <<0, 1>>, <<0, 0>>} :
                k1 # k2 => RowsWhere(k1[1], k1[2]) \cap RowsWhere(k2[1], k2[2]) = {}
         /\ abcd.a + abcd.b + abcd.c + abcd.d <= Len(data1)
         /\ TwoValued => abcd.a + abcd.b + abcd.c + abcd.d = Len(data1)
         /\ contingency_table = <<<<abcd.a, abcd.b>>, <<abcd.c, abcd.d>>>>
         /\ TwoValued =>
              /\ contingency_table[1][1] + contingency_table[1][2]
                   = Cardinality({i \in DOMAIN data1 : data1[i].NativeEnt = 1})
              /\ contingency_table[1][1] + contingency_table[2][1]
                   = Cardinality({i \in DOMAIN data1 : data1[i].NonRefoldable = 1})
    /\ cell1 = "tested" =>
         LET ad == abcd.a * abcd.d
             bc == abcd.b * abcd.c
         IN /\ bc > 0 => /\ odds_ratio.kind = "finite"
                         /\ odds_ratio.num * bc = ad * odds_ratio.den
                         /\ odds_ratio.den > 0
            /\ (bc = 0 /\ ad > 0) => odds_ratio.kind = "inf"
            /\ (bc = 0 /\ ad = 0) => odds_ratio.kind = "nan"

\* All four counts positive, the odds ratio other than 1.
C28_Witness ==
    /\ cell1 = "tested"
    /\ TwoValued
    /\ abcd.b > 0 /\ abcd.c > 0
    /\ odds_ratio.kind = "finite"
    /\ odds_ratio.num > odds_ratio.den

\* The rows of the length file with the given gene, by place in the file.
ListedFor(gene) == {j \in DOMAIN csv4_p2 : csv4_p2[j].gene = gene}
FirstListed(gene) == CHOOSE j \in ListedFor(gene) : \A m \in ListedFor(gene) : j <= m

\* C29: the merged table has one row per row of the misfolding table, in the
\* same order and with the same content, plus the first length the length file
\* lists for the gene of the row, or a missing length if it lists none.
C29_OneRowPerProtein ==
    cell4 = "merged" =>
        /\ Len(data4_final) = Len(data4_p1)
        /\ \A i \in DOMAIN data4_final :
             /\ data4_final[i].gene = data4_p1[i].gene
             /\ data4_final[i].rest = data4_p1[i].rest
             /\ IF ListedFor(data4_p1[i].gene) = {}
                THEN data4_final[i].uniprot_length = NaN
                ELSE data4_final[i].uniprot_length
                       = csv4_p2[FirstListed(data4_p1[i].gene)].uniprot_length
        /\ \A j, m \in DOMAIN data4_p2 : data4_p2[j].gene = data4_p2[m].gene => j = m

\* A gene the length file lists twice, on two rows of the misfolding table, and
\* a gene it does not list.
C29_Witness ==
    /\ cell4 = "merged"
    /\ \E i, j \in DOMAIN data4_p1 :
         /\ i < j
         /\ data4_p1[i].gene = data4_p1[j].gene
         /\ Cardinality(ListedFor(data4_p1[i].gene)) >= 2
    /\ \E i \in DOMAIN data4_final : data4_final[i].uniprot_length = NaN
    /\ Len(data4_p2) < Len(csv4_p2)

Content(row) == <<row.target_value, row.features>>
ContentsOf(table) == {Content(table[i]) : i \in DOMAIN table}

\* C30: the balanced table holds n_samples rows of outcome 0 and n_samples rows
\* of outcome 1, each the content of a row of the loaded table and no loaded row
\* twice; and the shuffle keeps the rows drawn, each once, changing their order
\* only.
C30_BalancedClasses ==
    /\ cell3 \in {"resampled", "balanced"} =>
         /\ Len(majority_downsampled) = n_samples
         /\ Len(minority_downsampled) = n_samples
         /\ \A i \in DOMAIN majority_downsampled : majority_downsampled[i].target_value = 0
         /\ \A i \in DOMAIN minority_downsampled : minority_downsampled[i].target_value = 1
    /\ cell3 = "balanced" =>
         /\ Len(balanced) = 2 * n_samples
         /\ Cardinality({i \in DOMAIN balanced : balanced[i].target_value = 0}) = n_samples
         /\ Cardinality({i \in DOMAIN balanced : balanced[i].target_value = 1}) = n_samples
         /\ ContentsOf(balanced) \subseteq ContentsOf(data3)
         /\ \A i, j \in DOMAIN balanced :
                balanced[i].features = balanced[j].features => i = j
         /\ ContentsOf(balanced)
              = ContentsOf(majority_downsampled) \cup ContentsOf(minority_downsampled)
         /\ \A i \in DOMAIN balanced : balanced[i].index = i

\* Both classes had more rows than were drawn, and the shuffle moved a row of
\* outcome 1 in front of a row of outcome 0.
C30_Witness ==
    /\ cell3 = "balanced"
    /\ Len(WhereTarget(data3, 0)) > n_samples
    /\ Len(WhereTarget(data3, 1)) > n_samples
    /\ balanced[1].target_value = 1
    /\ balanced[2].target_value = 0
    /\ \E i \in DOMAIN balanced : balanced[i].features # majority_downsampled[1].features
                                  /\ balanced[i].target_value = 0

====
